---- MODULE Spec2Model ----
(***************************************************************************)
(* fastquadtree: the point quadtree (src/src/lib.rs, src/src/geom.rs) and  *)
(* the dense id/payload store (src/src/obj_store.rs) as state machines.    *)
(*                                                                         *)
(* Coordinates are f64 in the source.  The model draws them from a dyadic  *)
(* grid: every coordinate is an integer number of 1/Unit steps, so every   *)
(* midpoint 0.5 * (min + max) the code computes down to StackLimit levels  *)
(* is exact both in f64 and here.                                          *)
(***************************************************************************)
EXTENDS Integers, Sequences, FiniteSets, Bags, TLC

\* ------------------------------------------------------------------ bounds
\* Most items the tree holds at once in the explored runs.
MaxItems == 3
\* Frames of QuadTree::insert the call stack holds before the process aborts
\* with a stack overflow (finite in every build; far larger in practice).
StackLimit == 4
\* Largest k asked of nearest_neighbors.
MaxK == 2

\* ------------------------------------------------------------- input sets
Unit == 2 ^ StackLimit
GridWidth == 4 * Unit
Pt(gx, gy) == [x |-> gx * Unit, y |-> gy * Unit]
\* Points inside the root boundary: the min corner, a point sharing its
\* quadrant, and a point of another quadrant.
InPoints == {Pt(0, 0), Pt(1, 1), Pt(3, 1)}
\* Points outside: on the max-x edge, on the max-y edge.
OutPoints == {Pt(4, 1), Pt(1, 4)}
Points == InPoints \cup OutPoints
\* Points asked for their nearest neighbours: on an item, between items, outside.
NNPoints == {Pt(0, 0), Pt(2, 1), Pt(1, 4)}
Ids == {1, 2}
Items == [id : Ids, point : Points]
Capacities == {1, 2}
None == << >>
Some(v) == <<v>>
MaxDepths == {None, Some(1), Some(2)}
RootBoundary == [min_x |-> 0, min_y |-> 0, max_x |-> GridWidth, max_y |-> GridWidth]
Coords == {0, Unit, 2 * Unit, GridWidth}
QueryRects == {r \in [min_x : Coords, min_y : Coords, max_x : Coords, max_y : Coords] :
                 r.min_x <= r.max_x /\ r.min_y <= r.max_y}

\* ---------------------------------------------------------------- geometry
\* contains with the max edges closed.
contains_closed(self, point) ==
    /\ point.x >= self.min_x
    /\ point.x <= self.max_x
    /\ point.y >= self.min_y
    /\ point.y <= self.max_y

contains(self, point) ==
    /\ point.x >= self.min_x
    /\ point.x < self.max_x
    /\ point.y >= self.min_y
    /\ point.y < self.max_y

\* intersects with one max bound compared against the wrong bound.
intersects_wrong_bound(self, other) ==
    /\ self.min_x < other.max_x
    /\ self.max_x > other.max_x
    /\ self.min_y < other.max_y
    /\ self.max_y > other.min_y

intersects(self, other) ==
    /\ self.min_x < other.max_x
    /\ self.max_x > other.min_x
    /\ self.min_y < other.max_y
    /\ self.max_y > other.min_y

\* 0.5 * (a + b); exact on the dyadic grid for every boundary the runs reach.
Mid(a, b) == (a + b) \div 2

\* ---------------------------------------------------------------- quadtree
VARIABLES tree, max_depth, aborted, stored, last, trip

qt_vars == <<tree, max_depth, aborted, stored, last, trip>>

\* The store's state (see the store section).
VARIABLES entries, free, obj_to_ids, live_len, freed, st_last

st_vars == <<entries, free, obj_to_ids, live_len, freed, st_last>>

vars == <<tree, max_depth, aborted, stored, last, trip,
          entries, free, obj_to_ids, live_len, freed, st_last>>

\* child_index_for_point with the two half-bits swapped: (x_ge << 1) | y_ge.
child_index_swapped(b, p) ==
    LET cx == Mid(b.min_x, b.max_x)
        cy == Mid(b.min_y, b.max_y)
        x_ge == IF p.x >= cx THEN 1 ELSE 0
        y_ge == IF p.y >= cy THEN 1 ELSE 0
    IN  2 * x_ge + y_ge

\* (y_ge << 1) | x_ge
child_index_for_point(b, p) ==
    LET cx == Mid(b.min_x, b.max_x)
        cy == Mid(b.min_y, b.max_y)
        x_ge == IF p.x >= cx THEN 1 ELSE 0
        y_ge == IF p.y >= cy THEN 1 ELSE 0
    IN  2 * y_ge + x_ge

new(boundary, capacity) ==
    [boundary |-> boundary, items |-> << >>, capacity |-> capacity, children |-> None]

\* The child rectangles with those of index 1 and 2 exchanged.
quads_transposed(b) ==
    LET cx == Mid(b.min_x, b.max_x)
        cy == Mid(b.min_y, b.max_y)
    IN  << [min_x |-> b.min_x, min_y |-> b.min_y, max_x |-> cx,      max_y |-> cy],
           [min_x |-> b.min_x, min_y |-> cy,      max_x |-> cx,      max_y |-> b.max_y],
           [min_x |-> cx,      min_y |-> b.min_y, max_x |-> b.max_x, max_y |-> cy],
           [min_x |-> cx,      min_y |-> cy,      max_x |-> b.max_x, max_y |-> b.max_y] >>

\* The four child rectangles of split, in index order 0..3.
quads(b) ==
    LET cx == Mid(b.min_x, b.max_x)
        cy == Mid(b.min_y, b.max_y)
    IN  << [min_x |-> b.min_x, min_y |-> b.min_y, max_x |-> cx,      max_y |-> cy],
           [min_x |-> cx,      min_y |-> b.min_y, max_x |-> b.max_x, max_y |-> cy],
           [min_x |-> b.min_x, min_y |-> cy,      max_x |-> cx,      max_y |-> b.max_y],
           [min_x |-> cx,      min_y |-> cy,      max_x |-> b.max_x, max_y |-> b.max_y] >>

\* at_max_depth that lets a node at the ceiling subdivide once more.
at_max_depth_late(md, depth) == md # None /\ depth > md[1]

\* The depth ceiling of the constructor variant that takes a maximum depth:
\* a node at or past it never subdivides.
at_max_depth(md, depth) == md # None /\ depth >= md[1]

Max(a, b) == IF a >= b THEN a ELSE b

RECURSIVE insert(_, _, _, _), split(_, _, _), split_drain(_, _, _, _, _, _)
RECURSIVE split_drain_items_kept(_, _, _, _, _, _)

\* QuadTree::insert on the node `self` at depth `depth` of the tree.  The
\* result is the returned bool, the node afterwards, the deepest level the
\* recursion reached, and whether the recursion ran out of stack.
insert(self, item, md, depth) ==
    IF depth > StackLimit
    THEN [ret |-> FALSE, node |-> self, depth |-> depth, overflow |-> TRUE]
    ELSE IF ~contains(self.boundary, item.point)
    THEN [ret |-> FALSE, node |-> self, depth |-> depth, overflow |-> FALSE]
    ELSE IF self.children = None
            /\ (Len(self.items) < self.capacity \/ at_max_depth(md, depth))
    THEN [ret |-> TRUE, node |-> [self EXCEPT !.items = Append(@, item)],
          depth |-> depth, overflow |-> FALSE]
    ELSE LET s == IF self.children = None
                  THEN split(self, md, depth)
                  ELSE [node |-> self, depth |-> depth, overflow |-> FALSE]
             idx == child_index_for_point(self.boundary, item.point)
             r == insert(s.node.children[idx + 1], item, md, depth + 1)
         IN  IF s.overflow
             THEN [ret |-> FALSE, node |-> self, depth |-> s.depth, overflow |-> TRUE]
             ELSE [ret |-> r.ret,
                   node |-> [s.node EXCEPT !.children[idx + 1] = r.node],
                   depth |-> Max(s.depth, r.depth),
                   overflow |-> r.overflow]

\* QuadTree::split: allocate the four children, move the items down, and
\* install the children.
split(self, md, depth) ==
    LET q == quads(self.boundary)
        kids == << new(q[1], self.capacity), new(q[2], self.capacity),
                   new(q[3], self.capacity), new(q[4], self.capacity) >>
    IN  split_drain(self, kids, 1, md, depth, depth)

\* The drain loop that copies the items down and leaves them in the parent.
split_drain_items_kept(self, kids, i, md, depth, reached) ==
    IF i > Len(self.items)
    THEN [node |-> [self EXCEPT !.children = kids],
          depth |-> reached, overflow |-> FALSE]
    ELSE LET it == self.items[i]
             idx == child_index_for_point(self.boundary, it.point)
             r == insert(kids[idx + 1], it, md, depth + 1)
         IN  IF r.overflow
             THEN [node |-> self, depth |-> r.depth, overflow |-> TRUE]
             ELSE split_drain_items_kept(self, [kids EXCEPT ![idx + 1] = r.node], i + 1,
                                         md, depth, Max(reached, r.depth))

\* The drain loop of split: the items of `self` from position i on are still
\* to be moved into `kids`; the bool each kid's insert returns is dropped.
split_drain(self, kids, i, md, depth, reached) ==
    IF i > Len(self.items)
    THEN [node |-> [self EXCEPT !.items = << >>, !.children = kids],
          depth |-> reached, overflow |-> FALSE]
    ELSE LET it == self.items[i]
             idx == child_index_for_point(self.boundary, it.point)
             r == insert(kids[idx + 1], it, md, depth + 1)
         IN  IF r.overflow
             THEN [node |-> self, depth |-> r.depth, overflow |-> TRUE]
             ELSE split_drain(self, [kids EXCEPT ![idx + 1] = r.node], i + 1,
                              md, depth, Max(reached, r.depth))

\* QuadTree::query_into: the items appended to `out`, in traversal order.
RECURSIVE query_into(_, _)
query_into(self, range) ==
    IF ~intersects(self.boundary, range)
    THEN << >>
    ELSE LET here == SelectSeq(self.items, LAMBDA it : contains(range, it.point))
         IN  IF self.children = None
             THEN here
             ELSE here \o query_into(self.children[1], range)
                       \o query_into(self.children[2], range)
                       \o query_into(self.children[3], range)
                       \o query_into(self.children[4], range)

query(self, range) == query_into(self, range)

\* ------------------------------------------- quadtree: delete, merge, counts
\* (the operations the tests call whose bodies lib.rs does not hold; written
\* from their description)

\* total number of currently indexed items
RECURSIVE count_items(_)
count_items(self) ==
    Len(self.items)
    + (IF self.children = None
       THEN 0
       ELSE count_items(self.children[1]) + count_items(self.children[2])
            + count_items(self.children[3]) + count_items(self.children[4]))

\* pre-order traversal returning every node's boundary
RECURSIVE get_all_rectangles(_)
get_all_rectangles(self) ==
    <<self.boundary>>
    \o (IF self.children = None
        THEN << >>
        ELSE get_all_rectangles(self.children[1]) \o get_all_rectangles(self.children[2])
             \o get_all_rectangles(self.children[3]) \o get_all_rectangles(self.children[4]))

\* first_match comparing the id alone.
first_match_id_only(items, id, point) ==
    LET hits == {i \in 1..Len(items) : items[i].id = id}
    IN  IF hits = {} THEN 0 ELSE CHOOSE i \in hits : \A j \in hits : i <= j

\* Position of the first item of `items` equal to (id, point), or 0.
first_match(items, id, point) ==
    LET hits == {i \in 1..Len(items) : items[i].id = id /\ items[i].point = point}
    IN  IF hits = {} THEN 0 ELSE CHOOSE i \in hits : \A j \in hits : i <= j

remove_at(items, i) == SubSeq(items, 1, i - 1) \o SubSeq(items, i + 1, Len(items))

\* try_merge that discards the children without moving their items up.
try_merge_drops_items(self) ==
    LET c == self.children
    IN  IF /\ c # None
           /\ \A i \in 1..4 : c[i].children = None
           /\ Len(c[1].items) + Len(c[2].items) + Len(c[3].items) + Len(c[4].items)
                <= self.capacity
        THEN [self EXCEPT !.children = None]
        ELSE self

\* try_merge that moves the items up and forgets to discard the children.
try_merge_keeps_children(self) ==
    LET c == self.children
    IN  IF /\ c # None
           /\ \A i \in 1..4 : c[i].children = None
           /\ Len(c[1].items) + Len(c[2].items) + Len(c[3].items) + Len(c[4].items)
                <= self.capacity
        THEN [self EXCEPT !.items = @ \o c[1].items \o c[2].items \o c[3].items \o c[4].items,
                          !.children = << new(c[1].boundary, self.capacity),
                                          new(c[2].boundary, self.capacity),
                                          new(c[3].boundary, self.capacity),
                                          new(c[4].boundary, self.capacity) >>]
        ELSE self

\* Merge condition: four leaf children whose combined item count is at most
\* the capacity collapse into this node.
try_merge(self) ==
    LET c == self.children
    IN  IF /\ c # None
           /\ \A i \in 1..4 : c[i].children = None
           /\ Len(c[1].items) + Len(c[2].items) + Len(c[3].items) + Len(c[4].items)
                <= self.capacity
        THEN [self EXCEPT !.items = @ \o c[1].items \o c[2].items \o c[3].items \o c[4].items,
                          !.children = None]
        ELSE self

\* delete that re-evaluates the merge only at the parent of the leaf the item
\* was removed from, not at the ancestors above it.
RECURSIVE delete_no_cascade(_, _, _)
delete_no_cascade(self, id, point) ==
    IF ~contains(self.boundary, point)
    THEN [ret |-> FALSE, node |-> self]
    ELSE IF self.children = None
    THEN LET i == first_match(self.items, id, point)
         IN  IF i = 0
             THEN [ret |-> FALSE, node |-> self]
             ELSE [ret |-> TRUE, node |-> [self EXCEPT !.items = remove_at(@, i)]]
    ELSE LET idx == child_index_for_point(self.boundary, point)
             r == delete_no_cascade(self.children[idx + 1], id, point)
             put == [self EXCEPT !.children[idx + 1] = r.node]
         IN  IF ~r.ret
             THEN [ret |-> FALSE, node |-> self]
             ELSE [ret |-> TRUE,
                   node |-> IF self.children[idx + 1].children = None
                            THEN try_merge(put)
                            ELSE put]

\* delete(id, point): the returned bool and the node afterwards.
RECURSIVE delete(_, _, _)
delete(self, id, point) ==
    IF ~contains(self.boundary, point)
    THEN [ret |-> FALSE, node |-> self]
    ELSE IF self.children = None
    THEN LET i == first_match(self.items, id, point)
         IN  IF i = 0
             THEN [ret |-> FALSE, node |-> self]
             ELSE [ret |-> TRUE, node |-> [self EXCEPT !.items = remove_at(@, i)]]
    ELSE LET idx == child_index_for_point(self.boundary, point)
             r == delete(self.children[idx + 1], id, point)
         IN  IF ~r.ret
             THEN [ret |-> FALSE, node |-> self]
             ELSE [ret |-> TRUE,
                   node |-> try_merge([self EXCEPT !.children[idx + 1] = r.node])]

\* ------------------------------------------------ quadtree: nearest neighbours
dist_sq(p, q) == (p.x - q.x) * (p.x - q.x) + (p.y - q.y) * (p.y - q.y)

Clamp(v, lo, hi) == IF v < lo THEN lo ELSE IF v > hi THEN hi ELSE v

\* dist_sq_rect measured to the rect's far corner instead of the clamped point.
dist_sq_rect_far(rect, p) ==
    dist_sq(p, [x |-> IF p.x - rect.min_x > rect.max_x - p.x THEN rect.min_x ELSE rect.max_x,
                y |-> IF p.y - rect.min_y > rect.max_y - p.y THEN rect.min_y ELSE rect.max_y])

\* Squared distance from a point to a rect: 0 inside or on it, else to the
\* nearest edge or corner, per axis by clamping.
dist_sq_rect(rect, p) ==
    dist_sq(p, [x |-> Clamp(p.x, rect.min_x, rect.max_x),
                y |-> Clamp(p.y, rect.min_y, rect.max_y)])

\* The candidate collection: at most k records [d, item], ascending by d.
\* A new candidate goes behind the kept ones at the same distance, and the
\* worst is evicted once the collection exceeds k.
push_candidate(best, cand, k) ==
    LET n == Cardinality({i \in 1..Len(best) : best[i].d <= cand.d})
        all == SubSeq(best, 1, n) \o <<cand>> \o SubSeq(best, n + 1, Len(best))
    IN  IF Len(all) > k THEN SubSeq(all, 1, k) ELSE all

RECURSIVE push_items(_, _, _, _, _)
push_items(best, items, i, p, k) ==
    IF i > Len(items)
    THEN best
    ELSE push_items(push_candidate(best, [d |-> dist_sq(p, items[i].point), item |-> items[i]], k),
                    items, i + 1, p, k)

\* A node queued for a visit, keyed by its boundary's distance to p.
queued(node, p) == [node |-> node, d |-> dist_sq_rect(node.boundary, p)]

\* Best-first search: `frontier` holds the nodes still to visit; the next one
\* is the nearest by boundary distance (the earliest of equals).  A node is
\* pruned once k candidates are held and its distance exceeds the worst's.
RECURSIVE nn_search(_, _, _, _)
nn_search(frontier, best, p, k) ==
    IF frontier = << >>
    THEN best
    ELSE LET ix == 1..Len(frontier)
             i == CHOOSE a \in ix : \A b \in ix :
                      \/ frontier[a].d < frontier[b].d
                      \/ frontier[a].d = frontier[b].d /\ a <= b
             node == frontier[i].node
             rest == remove_at(frontier, i)
         IN  IF Len(best) = k /\ frontier[i].d > best[k].d
             THEN nn_search(rest, best, p, k)
             ELSE nn_search(rest \o [c \in 1..Len(node.children) |-> queued(node.children[c], p)],
                            push_items(best, node.items, 1, p, k), p, k)

nearest_neighbors(self, p, k) ==
    IF k = 0
    THEN << >>
    ELSE LET best == nn_search(<<queued(self, p)>>, << >>, p, k)
         IN  [i \in 1..Len(best) |-> best[i].item]

\* The k = 1 specialization: None or Some(item).
nearest_neighbor(self, p) == nearest_neighbors(self, p, 1)

\* ------------------------------------------------------ quadtree: the machine
\* tree      the root node (boundary, items, capacity, children)
\* max_depth the configured maximum depth, None when not configured
\* aborted   the process died of a stack overflow inside insert
\* stored    the items whose insert returned true and that no delete has
\*           removed since, as a bag (what a caller keeps in a plain list)
\* last      the latest call: its arguments, its result, and what the tree
\*           held before it
\* trip      how the calls so far line up: phase "ins" while every call was
\*           an insert of a point inside the root boundary (items: the
\*           items passed), "del" while those inserts
\*           were followed only by deletes of items still stored, "off"
\*           otherwise; peak is the largest rectangle count seen on the way

One(item) == SetToBag({item})

SeqToBag(seq) ==
    [e \in {seq[i] : i \in 1..Len(seq)} |-> Cardinality({i \in 1..Len(seq) : seq[i] = e})]

\* Every item held anywhere in the tree, node by node (no pruning).
RECURSIVE all_items(_)
all_items(self) ==
    self.items
    \o (IF self.children = None
        THEN << >>
        ELSE all_items(self.children[1]) \o all_items(self.children[2])
             \o all_items(self.children[3]) \o all_items(self.children[4]))

NoCall ==
    [op |-> "new", id |-> 0, point |-> Pt(0, 0), returned |-> TRUE, ret |-> FALSE,
     before |-> EmptyBag, count_before |-> 0, changed |-> FALSE, repeat |-> FALSE,
     depth |-> 0]

Off == [phase |-> "off", items |-> EmptyBag, peak |-> 0]

QTInit ==
    /\ tree \in {new(RootBoundary, c) : c \in Capacities}
    /\ max_depth \in MaxDepths
    /\ aborted = FALSE
    /\ stored = EmptyBag
    /\ last = NoCall
    /\ trip = [phase |-> "ins", items |-> EmptyBag, peak |-> 1]

Insert(item) ==
    /\ ~aborted
    /\ BagCardinality(stored) < MaxItems
    /\ LET r == insert(tree, item, max_depth, 0)
           after == IF r.overflow THEN tree ELSE r.node
       IN  /\ aborted' = r.overflow
           /\ tree' = after
           /\ stored' = IF ~r.overflow /\ r.ret THEN stored (+) One(item) ELSE stored
           /\ last' = [op |-> "insert", id |-> item.id, point |-> item.point,
                       returned |-> ~r.overflow, ret |-> r.ret,
                       before |-> SeqToBag(all_items(tree)),
                       count_before |-> count_items(tree),
                       changed |-> after # tree,
                       repeat |-> FALSE, depth |-> r.depth]
           /\ trip' = IF trip.phase = "ins" /\ contains(tree.boundary, item.point)
                      THEN [phase |-> "ins", items |-> trip.items (+) One(item),
                            peak |-> Max(trip.peak, Len(get_all_rectangles(after)))]
                      ELSE Off
    /\ UNCHANGED max_depth
    /\ UNCHANGED st_vars

Delete(id, point) ==
    /\ ~aborted
    /\ LET r == delete(tree, id, point)
           item == [id |-> id, point |-> point]
       IN  /\ tree' = r.node
           /\ stored' = IF r.ret THEN stored (-) One(item) ELSE stored
           /\ last' = [op |-> "delete", id |-> id, point |-> point,
                       returned |-> TRUE, ret |-> r.ret,
                       before |-> SeqToBag(all_items(tree)),
                       count_before |-> count_items(tree),
                       changed |-> r.node # tree,
                       repeat |-> /\ last.op = "delete" /\ last.ret
                                  /\ CopiesIn(item, last.before) = 1
                                  /\ last.id = id /\ last.point = point,
                       depth |-> 0]
           /\ trip' = IF trip.phase \in {"ins", "del"} /\ CopiesIn(item, stored) >= 1
                      THEN [phase |-> "del", items |-> EmptyBag, peak |-> trip.peak]
                      ELSE Off
    /\ UNCHANGED <<max_depth, aborted>>
    /\ UNCHANGED st_vars

QTNext ==
    \/ \E item \in Items : Insert(item)
    \/ \E id \in Ids, point \in Points : Delete(id, point)


\* ------------------------------------------- quadtree: the subdivision machine
\* One node at a time: `tree` is a leaf of capacity 2 on some boundary; it is
\* given an item at a point it contains and split, which drains the item
\* into a child, and a second item at the same point is then inserted into
\* the child the midpoint comparison selects.  The next leaf looked at is a
\* new node on the quadrant that received the point.  `last` keeps the
\* point, the child index and what the child's insert returned.

\* Boundaries the descent starts from: the root square, a wide rectangle and
\* a rectangle away from the origin.
QuadBoundaries ==
    {RootBoundary,
     [min_x |-> 0, min_y |-> 0, max_x |-> GridWidth, max_y |-> 2 * Unit],
     [min_x |-> Unit, min_y |-> 2 * Unit, max_x |-> 3 * Unit, max_y |-> GridWidth]}

\* Points on a grid of half a Unit, the max edges of the root included.
QuadCoords == {k * (Unit \div 2) : k \in 0..((2 * GridWidth) \div Unit)}
QuadPoints == [x : QuadCoords, y : QuadCoords]

\* The midpoints of the boundary are on the integer grid, as the f64
\* midpoints of the modelled boundaries are exact.
ExactMid(b) == (b.max_x - b.min_x) % 2 = 0 /\ (b.max_y - b.min_y) % 2 = 0

QuadInit ==
    /\ tree \in {new(b, 2) : b \in QuadBoundaries}
    /\ max_depth = None
    /\ aborted = FALSE
    /\ stored = EmptyBag
    /\ last = [op |-> "new"]
    /\ trip = Off

SplitNode(p) ==
    /\ tree.children = None
    /\ ExactMid(tree.boundary)
    /\ contains(tree.boundary, p)
    /\ LET it == [id |-> 1, point |-> p]
           leaf == insert(tree, it, None, 0).node
           s == split(leaf, None, 0)
           idx == child_index_for_point(tree.boundary, p)
           r == insert(s.node.children[idx + 1], [id |-> 2, point |-> p], None, 1)
       IN  /\ tree' = s.node
           /\ last' = [op |-> "split", point |-> p, idx |-> idx, ret |-> r.ret]
    /\ UNCHANGED <<max_depth, aborted, stored, trip>>
    /\ UNCHANGED st_vars

Descend ==
    /\ tree.children # None
    /\ tree' = new(tree.children[last.idx + 1].boundary, tree.capacity)
    /\ last' = [op |-> "new"]
    /\ UNCHANGED <<max_depth, aborted, stored, trip>>
    /\ UNCHANGED st_vars

QuadNext ==
    \/ \E p \in QuadPoints : SplitNode(p)
    \/ Descend

\* The tree while only the store is exercised: freshly constructed.
QTIdle ==
    /\ tree = new(RootBoundary, 1)
    /\ max_depth = None
    /\ aborted = FALSE
    /\ stored = EmptyBag
    /\ last = NoCall
    /\ trip = [phase |-> "ins", items |-> EmptyBag, peak |-> 1]

\* The store while only the tree is exercised: freshly constructed.
StoreIdle ==
    /\ entries = << >>
    /\ free = << >>
    /\ obj_to_ids = << >>
    /\ live_len = 0
    /\ freed = << >>
    /\ st_last = [op |-> "new", id |-> 0, ret |-> None, expect |-> None, just_freed |-> << >>,
                  after |-> << >>, was_live |-> FALSE, key |-> None]

\* A freshly constructed tree of any explored configuration, beside a new store.
QTSpecInit == QTInit /\ StoreIdle

QTSpec == QTSpecInit /\ [][QTNext]_vars

QuadSpecInit == QuadInit /\ StoreIdle

QuadSpec == QuadSpecInit /\ [][QuadNext]_vars

\* ------------------------------------------------------ quadtree: properties
\* Half-open containment, written out: min <= coord < max on both axes.
HalfOpen(r, p) == r.min_x <= p.x /\ p.x < r.max_x /\ r.min_y <= p.y /\ p.y < r.max_y

Occurrences(seq, e) == Cardinality({i \in 1..Len(seq) : seq[i] = e})

Min(a, b) == IF a <= b THEN a ELSE b

LastItem == [id |-> last.id, point |-> last.point]

\* How many items of bag b lie exactly at point p.
CopiesAt(b, p) == BagCardinality([e \in {f \in BagToSet(b) : f.point = p} |-> b[e]])

\* No item occurs twice in bag b.
Distinct(b) == \A e \in BagToSet(b) : CopiesIn(e, b) = 1

\* The unit cell whose min corner is p.
CellOf(p) == [min_x |-> p.x, min_y |-> p.y, max_x |-> p.x + Unit, max_y |-> p.y + Unit]

RECURSIVE height(_)
height(self) ==
    IF self.children = None
    THEN 0
    ELSE 1 + Max(Max(height(self.children[1]), height(self.children[2])),
                 Max(height(self.children[3]), height(self.children[4])))

\* The tree or the stored items may differ from what they were before the
\* latest call: it returned true or changed the tree, or none was made yet.
\* In every other state both are what they were in the state before, where
\* the read-only operations have been checked already.
Fresh == last.op = "new" \/ last.ret \/ last.changed

\* C1: after any sequence of insert and delete calls and for every query
\* rectangle, query returns each stored item whose point is half-open inside
\* the rectangle exactly as many times as it is stored, and nothing else.
C1_QueryExact ==
    Fresh =>
        \A r \in QueryRects :
            SeqToBag(query(tree, r))
                = [e \in {f \in BagToSet(stored) : HalfOpen(r, f.point)} |-> stored[e]]

\* A split tree after a successful delete, and a rectangle whose query prunes
\* a child that holds items while returning some of the stored items.
C1_Witness ==
    /\ last.op = "delete" /\ last.ret
    /\ tree.children # None
    /\ \E r \in QueryRects :
          /\ Len(query(tree, r)) >= 1
          /\ Len(query(tree, r)) < BagCardinality(stored)
          /\ \E i \in 1..4 : /\ ~intersects(tree.children[i].boundary, r)
                             /\ count_items(tree.children[i]) > 0

\* C2 as stated: in an insert-only run of N in-boundary items with pairwise
\* distinct (id, point) pairs, every insert returns true, count_items() is N
\* and the full-boundary query returns exactly those N items.
C2_InsertOnlyAsStated ==
    (trip.phase = "ins" /\ last.op = "insert" /\ Distinct(trip.items))
        => /\ last.returned /\ last.ret
           /\ count_items(tree) = BagCardinality(trip.items)
           /\ SeqToBag(query(tree, RootBoundary)) = trip.items

\* C2 amended: the same, for the runs where a maximum depth is configured or
\* no point is shared by more than `capacity` of the items.
C2_InsertOnly ==
    (/\ trip.phase = "ins" /\ last.op = "insert" /\ Distinct(trip.items)
     /\ \/ max_depth # None
        \/ \A p \in InPoints : CopiesAt(trip.items, p) <= tree.capacity)
        => /\ last.returned /\ last.ret
           /\ count_items(tree) = BagCardinality(trip.items)
           /\ SeqToBag(query(tree, RootBoundary)) = trip.items

\* An insert-only run of three or more distinct items, two of them on one
\* point, that has split the root.
C2_Witness ==
    /\ trip.phase = "ins" /\ last.op = "insert" /\ Distinct(trip.items)
    /\ \/ max_depth # None
       \/ \A p \in InPoints : CopiesAt(trip.items, p) <= tree.capacity
    /\ BagCardinality(trip.items) >= 3
    /\ \E p \in InPoints : CopiesAt(trip.items, p) >= 2
    /\ tree.children # None

\* C3: a delete of an item the tree holds exactly once returns true and
\* lowers count_items() by one; the same delete repeated at once returns
\* false and leaves count_items() and the tree unchanged.
C3_DeleteOnce ==
    last.op = "delete"
        => /\ CopiesIn(LastItem, last.before) = 1
                => last.ret /\ count_items(tree) = last.count_before - 1
           /\ last.repeat
                => ~last.ret /\ count_items(tree) = last.count_before /\ ~last.changed

\* The repeated delete has run, with other items still in the tree.
C3_Witness ==
    last.op = "delete" /\ last.repeat /\ ~last.ret /\ last.count_before >= 1

\* C4: when N inserts are followed by deletes of those N items in any order,
\* every delete returns true, and once all N are deleted count_items() is 0
\* and get_all_rectangles() has length 1.
C4_RoundTrip ==
    trip.phase = "del"
        => /\ last.op = "delete" /\ last.ret
           /\ stored = EmptyBag
                => count_items(tree) = 0 /\ Len(get_all_rectangles(tree)) = 1

\* All items deleted again after the tree had split two levels deep.
C4_Witness ==
    trip.phase = "del" /\ stored = EmptyBag /\ trip.peak >= 9

\* C5: delete removes one copy of the item whose id and point both match and
\* nothing else; every other item stays stored and is found by a query of its
\* cell; with no match, or a point outside the root boundary, delete returns
\* false and the tree is unchanged.
C5_DeleteFrame ==
    last.op = "delete"
        => LET now == SeqToBag(all_items(tree))
           IN  /\ (CopiesIn(LastItem, last.before) = 0 \/ ~HalfOpen(RootBoundary, last.point))
                     => ~last.ret /\ ~last.changed
               /\ last.ret => CopiesIn(LastItem, last.before) >= 1
               /\ now = IF last.ret THEN last.before (-) One(LastItem) ELSE last.before
               /\ \A it \in BagToSet(now) :
                      Occurrences(query(tree, CellOf(it.point)), it) = CopiesIn(it, now)

\* A successful delete that left behind an item on the same point with another
\* id and an item with the same id on another point.
C5_Witness ==
    /\ last.op = "delete" /\ last.ret
    /\ \E it \in BagToSet(stored) : it.point = last.point /\ it.id # last.id
    /\ \E it \in BagToSet(stored) : it.id = last.id /\ it.point # last.point

\* C6 as stated: insert returns, and returns false exactly when the point is
\* not half-open inside the root boundary; a rejected insert changes nothing.
C6_InsertAsStated ==
    last.op = "insert"
        => /\ last.returned
           /\ last.ret <=> HalfOpen(RootBoundary, last.point)
           /\ ~last.ret => ~last.changed

\* C6 amended: an insert of a point outside returns false and changes nothing;
\* an insert that returns false was of a point outside; an insert of a point
\* inside returns true whenever a maximum depth is configured or fewer than
\* `capacity` stored items lie exactly on that point.
C6_Insert ==
    last.op = "insert"
        => /\ ~HalfOpen(RootBoundary, last.point)
                => last.returned /\ ~last.ret /\ ~last.changed
           /\ (last.returned /\ ~last.ret) => ~HalfOpen(RootBoundary, last.point)
           /\ (/\ HalfOpen(RootBoundary, last.point)
               /\ \/ max_depth # None
                  \/ CopiesAt(last.before, last.point) < tree.capacity)
                => last.returned /\ last.ret

\* An insert on a max edge rejected by a tree that has split.
C6_Witness ==
    /\ last.op = "insert" /\ last.returned /\ ~last.ret
    /\ (last.point.x = GridWidth \/ last.point.y = GridWidth)
    /\ tree.children # None

\* C7: nearest_neighbors(p, k) returns min(k, count_items()) stored items in
\* non-decreasing order of squared distance, and no stored item left out is
\* nearer than a returned one (the returned distances are the k smallest);
\* nearest_neighbor(p) is empty only for an empty tree.
C7_NearestNeighbors ==
    /\ count_items(tree) = BagCardinality(stored)
    /\ Fresh => \A p \in NNPoints :
        /\ \A k \in 0..MaxK :
              \A out \in {nearest_neighbors(tree, p, k)} :
                  \A got \in {SeqToBag(out)} :
                      /\ Len(out) = Min(k, count_items(tree))
                      /\ \A e \in BagToSet(got) : CopiesIn(e, got) <= CopiesIn(e, stored)
                      /\ \A i \in 1..(Len(out) - 1) :
                            dist_sq(p, out[i].point) <= dist_sq(p, out[i + 1].point)
                      /\ \A e \in BagToSet(stored) :
                            CopiesIn(e, stored) > CopiesIn(e, got)
                                => \A i \in 1..Len(out) :
                                       dist_sq(p, out[i].point) <= dist_sq(p, e.point)
        /\ nearest_neighbor(tree, p) = << >> <=> count_items(tree) = 0

\* After a delete, a split tree of two items asked for one neighbour.
C7_Witness ==
    /\ last.op = "delete" /\ last.ret
    /\ tree.children # None
    /\ count_items(tree) = 2
    /\ \E p \in NNPoints : Len(nearest_neighbors(tree, p, 1)) = 1

\* C8: with a maximum depth configured no node at that depth has children,
\* every insert returns, its recursion goes no deeper than the maximum depth,
\* and every insert of an in-boundary point returns true.
C8_MaxDepth ==
    max_depth # None
        => /\ height(tree) <= max_depth[1]
           /\ last.op = "insert"
                => /\ last.returned
                   /\ last.depth <= max_depth[1]
                   /\ HalfOpen(RootBoundary, last.point) => last.ret

\* More than `capacity` items on one point, the last of them placed by an
\* insert that went down to the maximum depth.
C8_Witness ==
    /\ max_depth # None
    /\ last.op = "insert" /\ last.ret
    /\ last.depth = max_depth[1]
    /\ CopiesAt(stored, last.point) > tree.capacity

\* ------------------------------------------------- quadtree: shape of the tree
\* The node is merge-eligible: four leaf children whose combined stored-item
\* count is at most the node's capacity.
MergeEligible(self) ==
    /\ self.children # None
    /\ \A i \in 1..4 : self.children[i].children = None
    /\ count_items(self) - Len(self.items) <= self.capacity

RECURSIVE NoMergeEligible(_)
\* No node of the subtree is merge-eligible.
NoMergeEligible(self) ==
    /\ ~MergeEligible(self)
    /\ self.children # None => \A i \in 1..4 : NoMergeEligible(self.children[i])

\* C22: after any successful delete the tree has no internal node whose four
\* children are all leaves holding together at most `capacity` items: every
\* ancestor the removal made merge-eligible was collapsed within the call.
C22_MergeCascades ==
    (last.op = "delete" /\ last.ret) => NoMergeEligible(tree)

\* A successful delete that took a two-level tree back to a single leaf: with
\* capacity 1 the two items stored before lay in the same root quadrant at
\* different points, so the root's child was itself split.
C22_Witness ==
    /\ last.op = "delete" /\ last.ret
    /\ tree.capacity = 1
    /\ tree.children = None
    /\ Len(tree.items) = 1
    /\ last.count_before = 2
    /\ \E e \in BagToSet(last.before) :
           /\ e.point # tree.items[1].point
           /\ child_index_for_point(tree.boundary, e.point)
                 = child_index_for_point(tree.boundary, tree.items[1].point)
           /\ e.point = last.point
    /\ max_depth # Some(1)

\* The four equal quadrants of a rectangle, as a set: each spans one half of
\* each axis, the halves meeting at the point cx, cy with cx - min = max - cx.
Quadrants(b) ==
    {q \in [min_x : {b.min_x, b.max_x - (b.max_x - b.min_x) \div 2},
            max_x : {b.min_x + (b.max_x - b.min_x) \div 2, b.max_x},
            min_y : {b.min_y, b.max_y - (b.max_y - b.min_y) \div 2},
            max_y : {b.min_y + (b.max_y - b.min_y) \div 2, b.max_y}] :
        /\ 2 * (q.max_x - q.min_x) = b.max_x - b.min_x
        /\ 2 * (q.max_y - q.min_y) = b.max_y - b.min_y}

RECURSIVE WellShaped(_)
\* Items sit at leaves only and inside their leaf's boundary; a node with
\* children has exactly four, one on each of its four equal quadrants.
WellShaped(self) ==
    IF self.children = None
    THEN \A i \in 1..Len(self.items) : HalfOpen(self.boundary, self.items[i].point)
    ELSE /\ self.items = << >>
         /\ Len(self.children) = 4
         /\ {self.children[i].boundary : i \in 1..4} = Quadrants(self.boundary)
         /\ Cardinality(Quadrants(self.boundary)) = 4
         /\ \A i \in 1..4 : WellShaped(self.children[i])

\* C23: between operations items are stored only at leaves, each inside the
\* half-open boundary of its leaf, and every internal node has exactly four
\* children on the four equal quadrants of its boundary.
C23_TreeShape == WellShaped(tree)

\* After an insert that returned true: a tree two levels deep holding three
\* items.
C23_Witness ==
    /\ last.op = "insert" /\ last.ret
    /\ height(tree) = 2
    /\ count_items(tree) = 3

\* C24: for a boundary with min < max on both axes and a point it contains,
\* exactly one of the four child boundaries split creates contains the point,
\* it is the child at index (y >= mid-y) * 2 + (x >= mid-x), and the insert
\* delegated to that child, by split's drain and by insert, is accepted.
C24_QuadrantExclusive ==
    last.op = "split"
        => LET b == tree.boundary
               p == last.point
               bit0 == IF 2 * p.x >= b.min_x + b.max_x THEN 1 ELSE 0
               bit1 == IF 2 * p.y >= b.min_y + b.max_y THEN 1 ELSE 0
           IN  /\ b.min_x < b.max_x /\ b.min_y < b.max_y
               /\ HalfOpen(b, p)
               /\ {i \in 1..4 : HalfOpen(tree.children[i].boundary, p)} = {2 * bit1 + bit0 + 1}
               /\ last.idx = 2 * bit1 + bit0
               /\ last.ret
               /\ \A i \in 1..4 :
                      tree.children[i].items
                          = IF i = last.idx + 1 THEN <<[id |-> 1, point |-> p]>> ELSE << >>

\* A split below the starting boundary at a point on the vertical midline and
\* off the horizontal one: the point belongs to the right-hand child only.
C24_Witness ==
    /\ last.op = "split"
    /\ tree.boundary \notin QuadBoundaries
    /\ 2 * last.point.x = tree.boundary.min_x + tree.boundary.max_x
    /\ 2 * last.point.y < tree.boundary.min_y + tree.boundary.max_y
    /\ last.idx = 1

\* ===================================================================== store
\* ObjStore<G> of src/src/obj_store.rs.  Ids are 0-based Vec indices; the
\* sequence `entries` is 1-based, so id i is entries[i + 1].  A payload is
\* known to the store by its identity alone (the pointer value): Keys.

\* ------------------------------------------------------------------ bounds
\* Longest dense array explored.
MaxDense == 2
\* Longest free list explored.
MaxFree == 2

\* usize::MAX of the build; an id above it does not fit a usize.
usize_MAX == 2147483646

Keys == {"k1", "k2"}
Geoms == {"g1"}
Payloads == {None} \cup {Some(k) : k \in Keys}
TooBigId == usize_MAX + 1
StoreIds == 0..(MaxDense - 1)

Ok(v) == [ok |-> TRUE, v |-> v]
Err(e) == [ok |-> FALSE, err |-> e]

\* The store as one value, the way the methods see `self`.
Self == [entries |-> entries, free |-> free, obj_to_ids |-> obj_to_ids, live_len |-> live_len]

u64_to_usize(id) == IF id > usize_MAX THEN Err("IdDoesNotFitUsize") ELSE Ok(id)

ObjStore_new == [entries |-> << >>, free |-> << >>, obj_to_ids |-> << >>, live_len |-> 0]

len(self) == self.live_len

dense_len(self) == Len(self.entries)

clear(self) == [entries |-> << >>, free |-> << >>, obj_to_ids |-> << >>, live_len |-> 0]

contains_id(self, id) ==
    LET r == u64_to_usize(id)
    IN  r.ok /\ r.v < Len(self.entries) /\ self.entries[r.v + 1] # None

contains_obj(self, key) == key \in DOMAIN self.obj_to_ids

\* remove_rev_mapping that leaves an emptied bucket in the map.
remove_rev_mapping_bucket_kept(map, key, id_) ==
    IF key \in DOMAIN map
    THEN [map EXCEPT ![key] = SelectSeq(@, LAMBDA x : x # id_)]
    ELSE map

\* remove_rev_mapping that drops the whole bucket of the identity.
remove_rev_mapping_whole(map, key, id_) ==
    [k \in (DOMAIN map) \ {key} |-> map[k]]

\* The reverse map after remove_rev_mapping(obj_ptr, id_).
remove_rev_mapping(map, key, id_) ==
    IF key \in DOMAIN map
    THEN LET v == SelectSeq(map[key], LAMBDA x : x # id_)
         IN  IF v = << >>
             THEN [k \in (DOMAIN map) \ {key} |-> map[k]]
             ELSE [map EXCEPT ![key] = v]
    ELSE map

\* The reverse map after add_rev_mapping(obj_ptr, id_).
add_rev_mapping(map, key, id_) ==
    LET v == IF key \in DOMAIN map THEN map[key] ELSE << >>
        w == IF \E i \in 1..Len(v) : v[i] = id_ THEN v ELSE Append(v, id_)
    IN  [k \in (DOMAIN map) \cup {key} |-> IF k = key THEN w ELSE map[k]]

\* alloc_id whose tail index is the dense length plus one.
alloc_id_past_tail(self) ==
    IF self.free # << >>
    THEN [st |-> [self EXCEPT !.free = SubSeq(@, 1, Len(@) - 1)],
          ret |-> self.free[Len(self.free)]]
    ELSE [st |-> self, ret |-> Len(self.entries) + 1]

\* alloc_id that takes the oldest freed id instead of the newest.
alloc_id_fifo(self) ==
    IF self.free # << >>
    THEN [st |-> [self EXCEPT !.free = Tail(@)], ret |-> Head(self.free)]
    ELSE [st |-> self, ret |-> Len(self.entries)]

\* alloc_id: the store afterwards and the id returned.
alloc_id(self) ==
    IF self.free # << >>
    THEN [st |-> [self EXCEPT !.free = SubSeq(@, 1, Len(@) - 1)],
          ret |-> self.free[Len(self.free)]]
    ELSE [st |-> self, ret |-> Len(self.entries)]

RECURSIVE pad_holes(_, _)
\* while self.entries.len() < id_ { self.entries.push(None) }
pad_holes(ents, id_) == IF Len(ents) < id_ THEN pad_holes(Append(ents, None), id_) ELSE ents

\* insert_at whose dense-id test lets an id one past the tail through.
insert_at_tail_plus_one(self, id, geom, obj, handle_out_of_order) ==
    LET c == u64_to_usize(id)
        id_ == c.v
        new_entry == [geom |-> geom, obj |-> obj]
    IN  IF ~c.ok
        THEN [st |-> self, ret |-> Err(c.err)]
        ELSE IF id_ > Len(self.entries) + 1 /\ ~handle_out_of_order
        THEN [st |-> self, ret |-> Err("OutOfOrderId")]
        ELSE LET ents == IF id_ > Len(self.entries) THEN pad_holes(self.entries, id_)
                                                   ELSE self.entries
             IN  IF id_ = Len(ents)
                 THEN [st |-> [self EXCEPT
                                 !.obj_to_ids = IF obj # None THEN add_rev_mapping(@, obj[1], id_)
                                                              ELSE @,
                                 !.entries = Append(ents, Some(new_entry)),
                                 !.live_len = @ + 1],
                       ret |-> Ok(<< >>)]
                 ELSE LET was_hole == ents[id_ + 1] = None
                          old == ents[id_ + 1]
                          m1 == IF old # None /\ old[1].obj # None
                                THEN remove_rev_mapping(self.obj_to_ids, old[1].obj[1], id_)
                                ELSE self.obj_to_ids
                          m2 == IF obj # None THEN add_rev_mapping(m1, obj[1], id_) ELSE m1
                      IN  [st |-> [self EXCEPT
                                     !.obj_to_ids = m2,
                                     !.entries = [ents EXCEPT ![id_ + 1] = Some(new_entry)],
                                     !.live_len = IF was_hole THEN @ + 1 ELSE @],
                           ret |-> Ok(<< >>)]

\* insert_at that counts the holes it pads as live.
insert_at_holes_counted(self, id, geom, obj, handle_out_of_order) ==
    LET c == u64_to_usize(id)
        id_ == c.v
        new_entry == [geom |-> geom, obj |-> obj]
    IN  IF ~c.ok
        THEN [st |-> self, ret |-> Err(c.err)]
        ELSE IF id_ > Len(self.entries) /\ ~handle_out_of_order
        THEN [st |-> self, ret |-> Err("OutOfOrderId")]
        ELSE LET ents == IF id_ > Len(self.entries) THEN pad_holes(self.entries, id_)
                                                   ELSE self.entries
             IN  IF id_ = Len(ents)
                 THEN [st |-> [self EXCEPT
                                 !.obj_to_ids = IF obj # None THEN add_rev_mapping(@, obj[1], id_)
                                                              ELSE @,
                                 !.entries = Append(ents, Some(new_entry)),
                                 !.live_len = @ + 1 + (Len(ents) - Len(self.entries))],
                       ret |-> Ok(<< >>)]
                 ELSE LET was_hole == ents[id_ + 1] = None
                          old == ents[id_ + 1]
                          m1 == IF old # None /\ old[1].obj # None
                                THEN remove_rev_mapping(self.obj_to_ids, old[1].obj[1], id_)
                                ELSE self.obj_to_ids
                          m2 == IF obj # None THEN add_rev_mapping(m1, obj[1], id_) ELSE m1
                      IN  [st |-> [self EXCEPT
                                     !.obj_to_ids = m2,
                                     !.entries = [ents EXCEPT ![id_ + 1] = Some(new_entry)],
                                     !.live_len = IF was_hole THEN @ + 1 ELSE @],
                           ret |-> Ok(<< >>)]

\* insert_at: the store afterwards and the StoreResult.
\* insert_at growing the dense array before it tests for an out-of-order id.
insert_at_pad_first(self, id, geom, obj, handle_out_of_order) ==
    LET c == u64_to_usize(id)
        id_ == c.v
        new_entry == [geom |-> geom, obj |-> obj]
    IN  IF ~c.ok
        THEN [st |-> self, ret |-> Err(c.err)]
        ELSE LET ents == IF id_ > Len(self.entries) THEN pad_holes(self.entries, id_)
                                                   ELSE self.entries
             IN  IF id_ > Len(self.entries) /\ ~handle_out_of_order
                 THEN [st |-> [self EXCEPT !.entries = ents], ret |-> Err("OutOfOrderId")]
                 ELSE IF id_ = Len(ents)
                 THEN [st |-> [self EXCEPT
                                 !.obj_to_ids = IF obj # None THEN add_rev_mapping(@, obj[1], id_)
                                                              ELSE @,
                                 !.entries = Append(ents, Some(new_entry)),
                                 !.live_len = @ + 1],
                       ret |-> Ok(<< >>)]
                 ELSE LET was_hole == ents[id_ + 1] = None
                          old == ents[id_ + 1]
                          m1 == IF old # None /\ old[1].obj # None
                                THEN remove_rev_mapping(self.obj_to_ids, old[1].obj[1], id_)
                                ELSE self.obj_to_ids
                          m2 == IF obj # None THEN add_rev_mapping(m1, obj[1], id_) ELSE m1
                      IN  [st |-> [self EXCEPT
                                     !.obj_to_ids = m2,
                                     !.entries = [ents EXCEPT ![id_ + 1] = Some(new_entry)],
                                     !.live_len = IF was_hole THEN @ + 1 ELSE @],
                           ret |-> Ok(<< >>)]

insert_at(self, id, geom, obj, handle_out_of_order) ==
    LET c == u64_to_usize(id)
        id_ == c.v
        new_entry == [geom |-> geom, obj |-> obj]
    IN  IF ~c.ok
        THEN [st |-> self, ret |-> Err(c.err)]
        ELSE IF id_ > Len(self.entries) /\ ~handle_out_of_order
        THEN [st |-> self, ret |-> Err("OutOfOrderId")]
        ELSE LET ents == IF id_ > Len(self.entries) THEN pad_holes(self.entries, id_)
                                                   ELSE self.entries
             IN  IF id_ = Len(ents)
                 THEN [st |-> [self EXCEPT
                                 !.obj_to_ids = IF obj # None THEN add_rev_mapping(@, obj[1], id_)
                                                              ELSE @,
                                 !.entries = Append(ents, Some(new_entry)),
                                 !.live_len = @ + 1],
                       ret |-> Ok(<< >>)]
                 ELSE LET was_hole == ents[id_ + 1] = None
                          old == ents[id_ + 1]
                          m1 == IF old # None /\ old[1].obj # None
                                THEN remove_rev_mapping(self.obj_to_ids, old[1].obj[1], id_)
                                ELSE self.obj_to_ids
                          m2 == IF obj # None THEN add_rev_mapping(m1, obj[1], id_) ELSE m1
                      IN  [st |-> [self EXCEPT
                                     !.obj_to_ids = m2,
                                     !.entries = [ents EXCEPT ![id_ + 1] = Some(new_entry)],
                                     !.live_len = IF was_hole THEN @ + 1 ELSE @],
                           ret |-> Ok(<< >>)]

\* ObjStore::insert: alloc_id, then insert_at with its result dropped.
ObjStore_insert(self, geom, obj) ==
    LET a == alloc_id(self)
        r == insert_at(a.st, a.ret, geom, obj, FALSE)
    IN  [st |-> r.st, ret |-> a.ret]

get(self, id) ==
    LET r == u64_to_usize(id)
    IN  IF r.ok /\ r.v < Len(self.entries) THEN self.entries[r.v + 1] ELSE None

saturating_sub(a, b) == IF a >= b THEN a - b ELSE 0

\* pop_id that leaves the reverse mapping of the popped entry in place.
pop_id_mapping_kept(self, id) ==
    LET c == u64_to_usize(id)
        i == c.v
    IN  IF ~c.ok
        THEN [st |-> self, ret |-> None]
        ELSE IF i >= Len(self.entries)
        THEN [st |-> self, ret |-> None]
        ELSE IF self.entries[i + 1] = None
        THEN [st |-> self, ret |-> None]
        ELSE LET old == self.entries[i + 1][1]
             IN  [st |-> [self EXCEPT
                            !.entries[i + 1] = None,
                            !.free = Append(@, i),
                            !.live_len = saturating_sub(@, 1)],
                  ret |-> Some(old)]

\* pop_id: the store afterwards and the Option<Entry> returned.
pop_id(self, id) ==
    LET c == u64_to_usize(id)
        i == c.v
    IN  IF ~c.ok
        THEN [st |-> self, ret |-> None]
        ELSE IF i >= Len(self.entries)
        THEN [st |-> self, ret |-> None]
        ELSE IF self.entries[i + 1] = None
        THEN [st |-> self, ret |-> None]
        ELSE LET old == self.entries[i + 1][1]
             IN  [st |-> [self EXCEPT
                            !.entries[i + 1] = None,
                            !.obj_to_ids = IF old.obj # None
                                           THEN remove_rev_mapping(@, old.obj[1], i)
                                           ELSE @,
                            !.free = Append(@, i),
                            !.live_len = saturating_sub(@, 1)],
                  ret |-> Some(old)]

min_id_for_obj(self, key) ==
    IF key \notin DOMAIN self.obj_to_ids
    THEN None
    ELSE LET ids == self.obj_to_ids[key]
         IN  IF ids = << >>
             THEN None
             ELSE Some(CHOOSE m \in {ids[i] : i \in 1..Len(ids)} :
                           \A i \in 1..Len(ids) : m <= ids[i])

sort_unstable(ids) == SortSeq(ids, LAMBDA a, b : a < b)

ids_for_obj_sorted(self, key) ==
    IF key \in DOMAIN self.obj_to_ids THEN sort_unstable(self.obj_to_ids[key]) ELSE << >>

RECURSIVE pop_all_loop_len_kept(_, _, _, _)
\* The loop of pop_by_object_all without the live_len decrement.
pop_all_loop_len_kept(self, ids, n, out) ==
    IF n > Len(ids)
    THEN [st |-> self, ret |-> out]
    ELSE LET i == ids[n]
         IN  IF i < Len(self.entries) /\ self.entries[i + 1] # None
             THEN pop_all_loop_len_kept([self EXCEPT !.entries[i + 1] = None,
                                                     !.free = Append(@, i)],
                                        ids, n + 1, Append(out, <<i, self.entries[i + 1][1]>>))
             ELSE pop_all_loop_len_kept(self, ids, n + 1, out)

RECURSIVE pop_all_loop(_, _, _, _)
\* The loop of pop_by_object_all over the sorted ids, from position n on.
pop_all_loop(self, ids, n, out) ==
    IF n > Len(ids)
    THEN [st |-> self, ret |-> out]
    ELSE LET i == ids[n]
         IN  IF i < Len(self.entries) /\ self.entries[i + 1] # None
             THEN pop_all_loop([self EXCEPT !.entries[i + 1] = None,
                                            !.free = Append(@, i),
                                            !.live_len = saturating_sub(@, 1)],
                               ids, n + 1, Append(out, <<i, self.entries[i + 1][1]>>))
             ELSE pop_all_loop(self, ids, n + 1, out)

\* pop_by_object_all that skips ids.sort_unstable().
pop_by_object_all_unsorted(self, key) ==
    IF key \notin DOMAIN self.obj_to_ids
    THEN [st |-> self, ret |-> << >>]
    ELSE pop_all_loop([self EXCEPT !.obj_to_ids = [k \in (DOMAIN @) \ {key} |-> @[k]]],
                      self.obj_to_ids[key], 1, << >>)

\* pop_by_object_all: the store afterwards and the (id, entry) pairs returned.
pop_by_object_all(self, key) ==
    IF key \notin DOMAIN self.obj_to_ids
    THEN [st |-> self, ret |-> << >>]
    ELSE pop_all_loop([self EXCEPT !.obj_to_ids = [k \in (DOMAIN @) \ {key} |-> @[k]]],
                      sort_unstable(self.obj_to_ids[key]), 1, << >>)

\* pop_by_object_min: the store afterwards and the Option<(id, entry)> returned.
pop_by_object_min(self, key) ==
    LET m == min_id_for_obj(self, key)
    IN  IF m = None
        THEN [st |-> self, ret |-> None]
        ELSE LET r == pop_id(self, m[1])
             IN  IF r.ret = None
                 THEN [st |-> r.st, ret |-> None]
                 ELSE [st |-> r.st, ret |-> Some(<<m[1], r.ret[1]>>)]

RECURSIVE gather_loop_payload_unchecked(_, _, _, _, _)
\* gather loop whose strict mode lets an entry without payload through.
gather_loop_payload_unchecked(self, ids, n, strict_no_holes, out) ==
    IF n > Len(ids)
    THEN Ok(out)
    ELSE LET c == u64_to_usize(ids[n])
             id_ == c.v
         IN  IF ~c.ok
             THEN Err(c.err)
             ELSE IF id_ >= Len(self.entries)
             THEN Err("IdOutOfBounds")
             ELSE IF self.entries[id_ + 1] # None
             THEN gather_loop_payload_unchecked(self, ids, n + 1, strict_no_holes,
                                                Append(out, self.entries[id_ + 1][1].obj))
             ELSE IF strict_no_holes
                  THEN Err("IdOutOfBounds")
                  ELSE gather_loop_payload_unchecked(self, ids, n + 1, strict_no_holes,
                                                     Append(out, None))

RECURSIVE gather_loop(_, _, _, _, _)
\* The loop of gather_objects_ref over ids, from position n on; an Err
\* returns at once and drops `out`.
gather_loop(self, ids, n, strict_no_holes, out) ==
    IF n > Len(ids)
    THEN Ok(out)
    ELSE LET c == u64_to_usize(ids[n])
             id_ == c.v
         IN  IF ~c.ok
             THEN Err(c.err)
             ELSE IF id_ >= Len(self.entries)
             THEN Err("IdOutOfBounds")
             ELSE IF self.entries[id_ + 1] # None
             THEN IF strict_no_holes /\ self.entries[id_ + 1][1].obj = None
                  THEN Err("IdOutOfBounds")
                  ELSE gather_loop(self, ids, n + 1, strict_no_holes,
                                   Append(out, self.entries[id_ + 1][1].obj))
             ELSE IF strict_no_holes
                  THEN Err("IdOutOfBounds")
                  ELSE gather_loop(self, ids, n + 1, strict_no_holes, Append(out, None))

\* gather_objects_ref: the StoreResult, a Vec of Option<&Py<PyAny>>.
gather_objects_ref(self, ids, strict_no_holes) == gather_loop(self, ids, 1, strict_no_holes, << >>)

\* ffi::Py_None(), the pointer bulk_obj_ptrs puts where there is no payload.
Py_None == "Py_None"

RECURSIVE bulk_loop(_, _, _, _, _)
\* The loop of bulk_obj_ptrs over ids, from position n on.
bulk_loop(self, ids, n, strict_no_holes, out) ==
    IF n > Len(ids)
    THEN Ok(out)
    ELSE LET c == u64_to_usize(ids[n])
             i == c.v
         IN  IF ~c.ok
             THEN Err(c.err)
             ELSE IF i >= Len(self.entries)
             THEN Err("IdOutOfBounds")
             ELSE IF self.entries[i + 1] # None
             THEN IF self.entries[i + 1][1].obj # None
                  THEN bulk_loop(self, ids, n + 1, strict_no_holes,
                                 Append(out, self.entries[i + 1][1].obj[1]))
                  ELSE IF strict_no_holes
                       THEN Err("IdOutOfBounds")
                       ELSE bulk_loop(self, ids, n + 1, strict_no_holes, Append(out, Py_None))
             ELSE IF strict_no_holes
                  THEN Err("IdOutOfBounds")
                  ELSE bulk_loop(self, ids, n + 1, strict_no_holes, Append(out, Py_None))

\* bulk_obj_ptrs: the StoreResult, a Vec of object pointers.
bulk_obj_ptrs(self, ids, strict_no_holes) == bulk_loop(self, ids, 1, strict_no_holes, << >>)

\* ---------------------------------------------------------- store: the machine
\* entries, free, obj_to_ids, live_len   the fields of ObjStore
\* freed    the ids handed back by pop_id / pop_by_object_* and not yet handed
\*          out again by alloc_id, oldest first, as a caller can tell them
\*          from the values returned since new() or the last clear()
\* st_last  the latest call: op, id argument, returned value, the id a LIFO
\*          allocator owes (expect), the ids the call freed (just_freed), for
\*          an allocation the ids the call before it freed (after), and
\*          whether the id it is about was live before the call (was_live)
\*          and the payload identity a by-object call was given (key)
\*          for insert_at also its handle_out_of_order flag (gaps) and the
\*          entry it was given (entry)

StoreInit ==
    /\ entries = ObjStore_new.entries
    /\ free = ObjStore_new.free
    /\ obj_to_ids = ObjStore_new.obj_to_ids
    /\ live_len = ObjStore_new.live_len
    /\ freed = << >>
    /\ st_last = [op |-> "new", id |-> 0, ret |-> None, expect |-> None, just_freed |-> << >>,
                  after |-> << >>, was_live |-> FALSE, key |-> None]

Install(st) ==
    /\ entries' = st.entries
    /\ free' = st.free
    /\ obj_to_ids' = st.obj_to_ids
    /\ live_len' = st.live_len

\* What a LIFO allocator returns next: the newest freed id, else the tail.
Owed == IF freed # << >> THEN freed[Len(freed)] ELSE Len(entries)

\* `freed` once id x has been handed out.
HandOut(x) == IF freed # << >> /\ freed[Len(freed)] = x THEN SubSeq(freed, 1, Len(freed) - 1) ELSE freed

Call(op, id, ret, just) ==
    [op |-> op, id |-> id, ret |-> ret, expect |-> None, just_freed |-> just, after |-> << >>,
     was_live |-> contains_id(Self, id), key |-> None]

AllocId ==
    /\ LET r == alloc_id(Self)
       IN  /\ Install(r.st)
           /\ freed' = HandOut(r.ret)
           /\ st_last' = [op |-> "alloc_id", id |-> 0, ret |-> Some(r.ret), expect |-> Some(Owed),
                          just_freed |-> << >>, after |-> st_last.just_freed,
                          was_live |-> contains_id(Self, r.ret), key |-> None]
    /\ UNCHANGED qt_vars

StoreInsert(geom, obj) ==
    /\ LET r == ObjStore_insert(Self, geom, obj)
       IN  /\ Len(r.st.entries) <= MaxDense
           /\ Install(r.st)
           /\ freed' = HandOut(r.ret)
           /\ st_last' = [op |-> "insert", id |-> 0, ret |-> Some(r.ret), expect |-> Some(Owed),
                          just_freed |-> << >>, after |-> st_last.just_freed,
                          was_live |-> contains_id(Self, r.ret), key |-> None]
    /\ UNCHANGED qt_vars

InsertAt(id, geom, obj, handle_out_of_order) ==
    /\ LET r == insert_at(Self, id, geom, obj, handle_out_of_order)
       IN  /\ Len(r.st.entries) <= MaxDense
           /\ Install(r.st)
           /\ st_last' = Call("insert_at", id, r.ret, << >>)
                            @@ [gaps |-> handle_out_of_order, entry |-> [geom |-> geom, obj |-> obj]]
    /\ UNCHANGED freed
    /\ UNCHANGED qt_vars

PopId(id) ==
    /\ LET r == pop_id(Self, id)
       IN  /\ Len(r.st.free) <= MaxFree
           /\ Install(r.st)
           /\ freed' = IF r.ret # None THEN Append(freed, id) ELSE freed
           /\ st_last' = Call("pop_id", id, r.ret, IF r.ret # None THEN <<id>> ELSE << >>)
    /\ UNCHANGED qt_vars

PopByObjectAll(key) ==
    /\ LET r == pop_by_object_all(Self, key)
           ids == [n \in 1..Len(r.ret) |-> r.ret[n][1]]
       IN  /\ Len(r.st.free) <= MaxFree
           /\ Install(r.st)
           /\ freed' = freed \o ids
           /\ st_last' = [Call("pop_by_object_all", 0, r.ret, ids) EXCEPT !.key = Some(key)]
    /\ UNCHANGED qt_vars

PopByObjectMin(key) ==
    /\ LET r == pop_by_object_min(Self, key)
           ids == IF r.ret # None THEN <<r.ret[1][1]>> ELSE << >>
       IN  /\ Len(r.st.free) <= MaxFree
           /\ Install(r.st)
           /\ freed' = freed \o ids
           /\ st_last' = [Call("pop_by_object_min", 0, r.ret, ids) EXCEPT !.key = Some(key)]
    /\ UNCHANGED qt_vars

Clear ==
    /\ Install(clear(Self))
    /\ freed' = << >>
    /\ st_last' = Call("clear", 0, None, << >>)
    /\ UNCHANGED qt_vars

StoreNext ==
    \/ AllocId
    \/ \E geom \in Geoms, obj \in Payloads : StoreInsert(geom, obj)
    \/ \E id \in 0..MaxDense \cup {TooBigId}, geom \in Geoms, obj \in Payloads :
          \* handle_out_of_order is read only when id is past the dense length
          \E gaps \in IF id > Len(entries) THEN BOOLEAN ELSE {FALSE} :
              InsertAt(id, geom, obj, gaps)
    \/ \E id \in 0..MaxDense \cup {TooBigId} : PopId(id)
    \/ \E key \in Keys : PopByObjectAll(key)
    \/ \E key \in Keys : PopByObjectMin(key)
    \/ Clear

\* A new store, beside a freshly constructed tree.
StoreSpecInit == StoreInit /\ QTIdle

StoreSpec == StoreSpecInit /\ [][StoreNext]_vars

\* ----------------------------------------------- store: the gap-filling machine
\* The same store driven by insert_at alone (appending, replacing, filling
\* the holes earlier gaps left), which leaves room to explore a longer dense
\* array: a gap behind slots that already exist.

\* Longest dense array explored by the gap-filling machine.
MaxGapDense == 3

InsertAtWide(id, geom, obj, handle_out_of_order) ==
    /\ LET r == insert_at(Self, id, geom, obj, handle_out_of_order)
       IN  /\ Len(r.st.entries) <= MaxGapDense
           /\ Install(r.st)
           /\ st_last' = Call("insert_at", id, r.ret, << >>)
                            @@ [gaps |-> handle_out_of_order, entry |-> [geom |-> geom, obj |-> obj]]
    /\ UNCHANGED freed
    /\ UNCHANGED qt_vars

GapNext ==
    \E id \in 0..MaxGapDense \cup {TooBigId}, geom \in Geoms, obj \in Payloads :
          \E gaps \in IF id > Len(entries) THEN BOOLEAN ELSE {FALSE} :
              InsertAtWide(id, geom, obj, gaps)

GapSpec == StoreSpecInit /\ [][GapNext]_vars

\* ---------------------------------------------------------- store: properties
\* The ids of the occupied slots whose payload has identity `key`.
LiveIdsOf(key) ==
    {i \in 0..(Len(entries) - 1) : entries[i + 1] # None /\ entries[i + 1][1].obj = Some(key)}

\* C9: alloc_id (also when called by insert) returns the most recently freed
\* id not yet handed out again, and the tail index dense_len() when no freed
\* id is left; right after a call that freed ids it returns the last of them.
C9_LifoReuse ==
    st_last.op \in {"alloc_id", "insert"}
        => /\ st_last.ret = st_last.expect
           /\ st_last.after # << >> => st_last.ret = Some(st_last.after[Len(st_last.after)])

\* An alloc_id right after a free that reused the freed id while an older
\* freed id is still waiting.
C9_Witness ==
    /\ st_last.op = "alloc_id"
    /\ st_last.after # << >>
    /\ st_last.ret[1] < Len(entries)
    /\ freed # << >>

\* C10: min_id_for_obj is the least id among the live entries holding the
\* identity and None when there is none; ids_for_obj_sorted is exactly that
\* set of ids, ascending, without duplicates.
C10_ReverseLookup ==
    \A key \in Keys :
        /\ min_id_for_obj(Self, key)
              = IF LiveIdsOf(key) = {}
                THEN None
                ELSE Some(CHOOSE m \in LiveIdsOf(key) : \A i \in LiveIdsOf(key) : m <= i)
        /\ \A out \in {ids_for_obj_sorted(Self, key)} :
              /\ {out[n] : n \in 1..Len(out)} = LiveIdsOf(key)
              /\ \A n \in 1..(Len(out) - 1) : out[n] < out[n + 1]

\* After an insert_at that replaced a live entry, an identity held at two ids
\* whose bucket is not in ascending order.
C10_Witness ==
    /\ st_last.op = "insert_at" /\ st_last.was_live
    /\ \E key \in Keys :
          /\ Cardinality(LiveIdsOf(key)) >= 2
          /\ obj_to_ids[key][1] > obj_to_ids[key][2]

\* The store after the step, the way the methods see `self`.
SelfAfter == [entries |-> entries', free |-> free', obj_to_ids |-> obj_to_ids', live_len |-> live_len']

\* The ids of a sequence of (id, entry) pairs.
PairIds(pairs) == {pairs[n][1] : n \in 1..Len(pairs)}

\* The elements of a sequence.
Range(seq) == {seq[n] : n \in 1..Len(seq)}

\* C11: pop_by_object_all(payload) removes exactly the live ids whose payload
\* has that identity and returns them with their entries in ascending id
\* order; afterwards contains_obj(payload) is false, len() is smaller by the
\* number of removed ids, each removed id is a hole on the free list, and
\* every other slot is unchanged.
C11_PopByObjectAll ==
    [][\A key \in Keys :
          (st_last'.op = "pop_by_object_all" /\ st_last'.key = Some(key))
              => LET ret == st_last'.ret
                 IN  /\ PairIds(ret) = LiveIdsOf(key)
                     /\ \A n \in 1..(Len(ret) - 1) : ret[n][1] < ret[n + 1][1]
                     /\ \A n \in 1..Len(ret) : Some(ret[n][2]) = entries[ret[n][1] + 1]
                     /\ ~contains_obj(SelfAfter, key)
                     /\ len(SelfAfter) = len(Self) - Cardinality(LiveIdsOf(key))
                     /\ dense_len(SelfAfter) = dense_len(Self)
                     /\ \A i \in LiveIdsOf(key) :
                            /\ ~contains_id(SelfAfter, i)
                            /\ i \in Range(free')
                     /\ \A i \in 0..(Len(entries) - 1) :
                            i \notin LiveIdsOf(key) => entries'[i + 1] = entries[i + 1]
                     /\ \A k \in (DOMAIN obj_to_ids) \ {key} :
                            k \in DOMAIN obj_to_ids' /\ obj_to_ids'[k] = obj_to_ids[k]
      ]_vars

\* A pop_by_object_all that removed two ids at once: both are holes now and
\* nothing is live.
C11_Witness ==
    /\ st_last.op = "pop_by_object_all"
    /\ Len(st_last.ret) >= 2
    /\ \A n \in 1..Len(st_last.ret) : entries[st_last.ret[n][1] + 1] = None
    /\ live_len = 0

\* ------------------------------------------------ store: gather / bulk lookup
\* gather_objects_ref and bulk_obj_ptrs take &self: they are applied, in every
\* reachable store state, to every id slice below.
LookupIds == 0..MaxDense \cup {TooBigId}
\* The id slices handed to a lookup: up to two ids, repeats included.
IdSlices == {<< >>} \cup {<<a>> : a \in LookupIds} \cup {<<a, b>> : a \in LookupIds, b \in LookupIds}

\* Every id of the slice fits the native width.
FitsUsize(ids) == \A n \in 1..Len(ids) : ids[n] <= usize_MAX

\* Slot id of the dense array, read straight from `entries`.
IsHole(id) == id < Len(entries) /\ entries[id + 1] = None
OutOfRange(id) == id >= Len(entries)
NoPayload(id) == id < Len(entries) /\ entries[id + 1] # None /\ entries[id + 1][1].obj = None
HasPayload(id) == id < Len(entries) /\ entries[id + 1] # None /\ entries[id + 1][1].obj # None
PayloadOf(id) == entries[id + 1][1].obj[1]

\* C12, as stated: in lenient mode gather / bulk lookup never fails because of
\* a hole, an out-of-range id or an id without payload; each such id yields
\* the "no payload" value at its position and every other id its payload, so
\* the output is parallel to the input.
C12_LenientNeverFails ==
    \A ids \in IdSlices :
        FitsUsize(ids)
            => LET g == gather_objects_ref(Self, ids, FALSE)
                   b == bulk_obj_ptrs(Self, ids, FALSE)
               IN  /\ g.ok /\ Len(g.v) = Len(ids)
                   /\ b.ok /\ Len(b.v) = Len(ids)
                   /\ \A n \in 1..Len(ids) :
                          IF HasPayload(ids[n])
                          THEN g.v[n] = Some(PayloadOf(ids[n])) /\ b.v[n] = PayloadOf(ids[n])
                          ELSE g.v[n] = None /\ b.v[n] = Py_None

\* C13: in strict mode gather / bulk lookup over ids that fit the native width
\* fails with the out-of-bounds error iff some id is a hole, out of range or
\* without payload; otherwise it returns the payload of every id in order.
C13_StrictAllOrNothing ==
    \A ids \in IdSlices :
        FitsUsize(ids)
            => LET g == gather_objects_ref(Self, ids, TRUE)
                   b == bulk_obj_ptrs(Self, ids, TRUE)
                   bad == \E n \in 1..Len(ids) :
                              IsHole(ids[n]) \/ OutOfRange(ids[n]) \/ NoPayload(ids[n])
               IN  IF bad
                   THEN g = Err("IdOutOfBounds") /\ b = Err("IdOutOfBounds")
                   ELSE /\ g = Ok([n \in 1..Len(ids) |-> Some(PayloadOf(ids[n]))])
                        /\ b = Ok([n \in 1..Len(ids) |-> PayloadOf(ids[n])])

\* A store with a payload at id 0 and a live entry without payload at id 1:
\* the strict lookup of <<0, 0>> returns two payloads, that of <<0, 1>> fails.
C13_Witness ==
    /\ HasPayload(0) /\ NoPayload(1)
    /\ gather_objects_ref(Self, <<0, 0>>, TRUE).ok
    /\ bulk_obj_ptrs(Self, <<0, 1>>, TRUE) = Err("IdOutOfBounds")

\* ---------------------------------------------------- store: insert_at, pop_id
\* C14, as stated: without gap filling insert_at places the entry whenever id
\* addresses an existing slot or the tail, and returns the out-of-order error
\* exactly when id is beyond dense length + 1.
C14_InsertAtAsStated ==
    [][(st_last'.op = "insert_at" /\ ~st_last'.gaps /\ st_last'.id <= usize_MAX)
          => LET id == st_last'.id
             IN  /\ id <= dense_len(Self)
                    => /\ st_last'.ret = Ok(<< >>)
                       /\ get(SelfAfter, id) = Some(st_last'.entry)
                 /\ st_last'.ret = Err("OutOfOrderId") <=> id > dense_len(Self) + 1
      ]_vars

\* C14, amended: without gap filling insert_at places the entry whenever id
\* addresses an existing slot or the tail (id <= dense_len()), and returns the
\* out-of-order error exactly when id is beyond the dense length
\* (id > dense_len(), the first such id being dense_len() + 1).
C14_InsertAtDense ==
    [][(st_last'.op = "insert_at" /\ ~st_last'.gaps /\ st_last'.id <= usize_MAX)
          => LET id == st_last'.id
             IN  /\ id <= dense_len(Self)
                    => /\ st_last'.ret = Ok(<< >>)
                       /\ get(SelfAfter, id) = Some(st_last'.entry)
                 /\ st_last'.ret = Err("OutOfOrderId") <=> id > dense_len(Self)
      ]_vars

\* An insert_at without gap filling refused at the id one past the tail of a
\* store that holds an entry.
C14_Witness ==
    /\ st_last.op = "insert_at" /\ ~st_last.gaps
    /\ st_last.ret = Err("OutOfOrderId")
    /\ st_last.id = Len(entries) + 1
    /\ live_len >= 1

\* C15: insert_at with gap filling and an id beyond the dense length succeeds:
\* afterwards dense_len() = id + 1, the entry is live at id, every slot
\* between the old dense length and id is a hole, len() is one larger and the
\* slots that existed are unchanged.
C15_InsertAtGaps ==
    [][(st_last'.op = "insert_at" /\ st_last'.gaps /\ st_last'.id <= usize_MAX
            /\ st_last'.id > dense_len(Self))
          => LET id == st_last'.id
             IN  /\ st_last'.ret = Ok(<< >>)
                 /\ dense_len(SelfAfter) = id + 1
                 /\ get(SelfAfter, id) = Some(st_last'.entry)
                 /\ contains_id(SelfAfter, id)
                 /\ \A i \in dense_len(Self)..(id - 1) :
                        ~contains_id(SelfAfter, i) /\ get(SelfAfter, i) = None
                 /\ len(SelfAfter) = len(Self) + 1
                 /\ \A i \in 0..(dense_len(Self) - 1) : entries'[i + 1] = entries[i + 1]
      ]_vars

\* An insert_at with gap filling that skipped a slot behind a live entry.
C15_Witness ==
    /\ st_last.op = "insert_at" /\ st_last.gaps /\ st_last.ret = Ok(<< >>)
    /\ st_last.id = Len(entries) - 1
    /\ st_last.id >= 2
    /\ entries[1] # None
    /\ entries[st_last.id] = None

\* The ids the reverse map holds for an identity.
Bucket(map, key) == IF key \in DOMAIN map THEN Range(map[key]) ELSE {}

\* C16: pop_id on an occupied slot returns the entry, leaves a hole, takes the
\* id out of its identity's reverse-mapping set, lowers len() by one and
\* pushes the id on the free list; on a hole or an out-of-range id it returns
\* none and changes nothing.
C16_PopId ==
    [][st_last'.op = "pop_id"
          => LET id == st_last'.id
             IN  IF id < Len(entries) /\ entries[id + 1] # None
                 THEN /\ Some(st_last'.ret[1]) = entries[id + 1]
                      /\ entries' = [entries EXCEPT ![id + 1] = None]
                      /\ \A k \in Keys :
                             Bucket(obj_to_ids', k)
                                = IF entries[id + 1][1].obj = Some(k)
                                  THEN Bucket(obj_to_ids, k) \ {id}
                                  ELSE Bucket(obj_to_ids, k)
                      /\ len(SelfAfter) = len(Self) - 1
                      /\ free' = Append(free, id)
                 ELSE /\ st_last'.ret = None
                      /\ UNCHANGED <<entries, free, obj_to_ids, live_len>>
      ]_vars

\* A pop_id that removed an entry whose identity is still held at another id.
C16_Witness ==
    /\ st_last.op = "pop_id" /\ st_last.ret # None
    /\ st_last.ret[1].obj # None
    /\ LiveIdsOf(st_last.ret[1].obj[1]) # {}
    /\ free[Len(free)] = st_last.id

\* ------------------------------------------------------ store: state invariants
\* C17, as stated: the free list is a stack of hole indices; every index on
\* it is within the dense array, addresses a hole and appears at most once.
C17_FreeListOfHoles ==
    \A n \in 1..Len(free) :
        /\ free[n] < Len(entries)
        /\ entries[free[n] + 1] = None
        /\ \A m \in 1..Len(free) : free[m] = free[n] => m = n

\* C18, as stated: insert never overwrites a live entry; the id it returns was
\* not live before the call, len() grows by exactly one and every entry that
\* was live stays as it was.
C18_InsertKeepsLive ==
    [][st_last'.op = "insert"
          => LET id == st_last'.ret[1]
             IN  /\ ~contains_id(Self, id)
                 /\ len(SelfAfter) = len(Self) + 1
                 /\ \A i \in 0..(Len(entries) - 1) :
                        entries[i + 1] # None => get(SelfAfter, i) = entries[i + 1]
      ]_vars

\* The occupied slots of the dense array.
Occupied == {i \in 0..(Len(entries) - 1) : entries[i + 1] # None}

\* C19: the reverse index agrees with the dense array; identity k maps to id
\* i iff slot i is occupied with a payload of identity k, no id is listed
\* twice, no identity maps to an empty set, and only identities map.
C19_ReverseIndexExact ==
    /\ DOMAIN obj_to_ids \subseteq Keys
    /\ \A k \in Keys :
           /\ Bucket(obj_to_ids, k) = LiveIdsOf(k)
           /\ k \in DOMAIN obj_to_ids
                 => /\ obj_to_ids[k] # << >>
                    /\ \A m, n \in 1..Len(obj_to_ids[k]) :
                           obj_to_ids[k][m] = obj_to_ids[k][n] => m = n

\* After an insert_at that replaced a live entry by an entry of identity k2,
\* the only one, while identity k1 is held at the other slot.
C19_Witness ==
    /\ st_last.op = "insert_at" /\ st_last.was_live /\ st_last.ret = Ok(<< >>)
    /\ st_last.entry.obj = Some("k2")
    /\ "k1" \in DOMAIN obj_to_ids
    /\ "k2" \in DOMAIN obj_to_ids
    /\ LiveIdsOf("k2") = {st_last.id}

\* C20: len() is the number of occupied slots of the dense array.
C20_LiveCount == len(Self) = Cardinality(Occupied)

\* A hole made by gap filling next to a live entry: two slots, one counted.
C20_Witness ==
    /\ st_last.op = "insert_at" /\ st_last.gaps /\ st_last.ret = Ok(<< >>)
    /\ Len(entries) = 2 /\ entries[1] = None
    /\ free = << >>
    /\ live_len = 1

\* C21: in every reachable store state alloc_id returns an index <= dense_len(),
\* so the insert_at inside insert returns Ok for any entry, and after insert
\* returned id, get(id) is the entry just stored.
C21_InsertCannotFail ==
    \A geom \in Geoms, obj \in Payloads :
        LET a == alloc_id(Self)
            r == insert_at(a.st, a.ret, geom, obj, FALSE)
            i == ObjStore_insert(Self, geom, obj)
        IN  /\ a.ret <= dense_len(Self)
            /\ r.ret = Ok(<< >>)
            /\ i.ret = a.ret
            /\ get(i.st, i.ret) = Some([geom |-> geom, obj |-> obj])

\* After an insert that took its id from the free list, below the tail of a
\* dense array of two slots, with another freed id still waiting.
C21_Witness ==
    /\ st_last.op = "insert"
    /\ Len(entries) = 2
    /\ st_last.ret[1] = 0
    /\ entries[1] # None
    /\ free # << >>

\* ------------------------------------------------ store: the lookup machine
\* insert_at and pop_id build stores with live entries, entries without a
\* payload and holes; gather_objects_ref and bulk_obj_ptrs are called on
\* them.  The lookups take &self: they return a result and assign no field.

GatherObjectsRef(ids, strict_no_holes) ==
    /\ st_last' = [Call("gather_objects_ref", 0, gather_objects_ref(Self, ids, strict_no_holes), << >>)
                      EXCEPT !.was_live = FALSE]
    /\ UNCHANGED <<entries, free, obj_to_ids, live_len, freed>>
    /\ UNCHANGED qt_vars

BulkObjPtrs(ids, strict_no_holes) ==
    /\ st_last' = [Call("bulk_obj_ptrs", 0, bulk_obj_ptrs(Self, ids, strict_no_holes), << >>)
                      EXCEPT !.was_live = FALSE]
    /\ UNCHANGED <<entries, free, obj_to_ids, live_len, freed>>
    /\ UNCHANGED qt_vars

\* The slices looked up: no id, one id, or id 0 followed by any id, so that a
\* lookup can fail on its first id and after a first id that was found.
FrameSlices == {ids \in IdSlices : Len(ids) = 2 => ids[1] = 0}

FrameNext ==
    \/ \E id \in 0..MaxDense \cup {TooBigId}, geom \in Geoms, obj \in Payloads :
          \E gaps \in IF id > Len(entries) THEN BOOLEAN ELSE {FALSE} :
              InsertAt(id, geom, obj, gaps)
    \/ \E id \in 0..MaxDense \cup {TooBigId} : PopId(id)
    \/ \E ids \in FrameSlices, strict \in BOOLEAN : GatherObjectsRef(ids, strict)
    \/ \E ids \in FrameSlices, strict \in BOOLEAN : BulkObjPtrs(ids, strict)

FrameSpec == StoreSpecInit /\ [][FrameNext]_vars

\* C25: a store call that returns an error leaves the store as it was: after
\* insert_at returned the out-of-order or the id-too-large error, and after
\* gather_objects_ref or bulk_obj_ptrs returned the out-of-bounds or the
\* id-too-large error, the dense array and its length, the free list, the
\* reverse index and the live count are what they were before the call.
C25_ErrorLeavesStore ==
    [][(/\ st_last'.op \in {"insert_at", "gather_objects_ref", "bulk_obj_ptrs"}
        /\ ~st_last'.ret.ok)
          => /\ st_last'.ret.err \in {"OutOfOrderId", "IdOutOfBounds", "IdDoesNotFitUsize"}
             /\ entries' = entries /\ Len(entries') = Len(entries)
             /\ free' = free
             /\ obj_to_ids' = obj_to_ids
             /\ live_len' = live_len]_vars

\* insert_at refused an id past the tail of a store that holds a live entry
\* with a payload and a freed hole.
C25_Witness ==
    /\ st_last.op = "insert_at"
    /\ st_last.ret = Err("OutOfOrderId")
    /\ live_len = 1
    /\ free # << >>
    /\ obj_to_ids # << >>

====
